---- MODULE Spec2Model ----
(***************************************************************************)
(* Model of the Halo Connect client of src/connector/halo_client.py:       *)
(* the OAuth2 token cache with its double-checked lock                     *)
(* (HaloBaseClient._get_access_token), the retrying HTTP session           *)
(* (HaloBaseClient._build_session, urllib3's Retry as configured there)    *)
(* and the request wrapper (HaloBaseClient._request).                      *)
(*                                                                         *)
(* Threads call _get_access_token or _request on one shared client.  Time  *)
(* is a clock in seconds that advances between any two steps.  The remote  *)
(* side (token endpoint and API) answers every physical attempt with any   *)
(* of a small set of outcomes.                                             *)
(*                                                                         *)
(* Model of the orchestrator of src/orchestrator/main.py: the JSON task    *)
(* log (TaskLogger), the logging wrapper (execute_with_logging) and the    *)
(* daily scheduler (ScheduledTask, DailyTaskScheduler).                    *)
(*                                                                         *)
(* Threads call TaskLogger.log on one logger (SpecLogger); one thread      *)
(* registers tasks and runs the poll loop of start() while the wall clock  *)
(* advances in ticks, DayLen of them to a calendar day, and a stop signal  *)
(* may arrive (SpecScheduler, SpecSchedulerFair).                          *)
(*                                                                         *)
(* One process runs main() for run_recalls or run_claims (SpecMain).       *)
(* Callers book, cancel and list appointments on the in-memory store of    *)
(* src/connector/__init__.py through src/agents/appointments.py            *)
(* (SpecAppointments).  The batch loops of src/agents/billing.py,          *)
(* src/agents/recalls.py and run_claims work through a list of items       *)
(* (SpecBatch).  _request deals with the terminal response of the session  *)
(* (SpecErrorResponse).                                                    *)
(***************************************************************************)
EXTENDS Integers, Sequences, FiniteSets, TLC

\* ------------------------------------------------------------------ bounds
NumThreads == 2          \* threads sharing the client
MaxTokens == 2           \* access tokens the token endpoint grants in one behaviour
MaxTicks == 1            \* clock advances in one behaviour
TickSeconds == 240       \* seconds per clock advance
max_retries == 1         \* the max_retries the client was constructed with
MaxLogCalls == 2         \* TaskLogger.log calls in one behaviour
MaxLogTicks == 1         \* clock advances while threads call TaskLogger.log
DayLen == 2              \* clock ticks in one calendar day
MaxClock == 3            \* the last instant the scheduler is followed to
MaxTasks == 2            \* tasks registered with the scheduler
MaxRuns == 2             \* task runs in one behaviour
poll_interval_seconds == 1   \* the poll interval the scheduler was made with, in ticks
MaxBookings == 2         \* appointments ever created in one store
MaxItems == 2            \* items in one batch

\* ------------------------------------------------------- program constants
DEFAULT_TOKEN_REFRESH_BUFFER_SECONDS == 60
DEFAULT_EXPIRES_IN == 300

Threads == 1..NumThreads

\* status_forcelist of the Retry strategy, and urllib3's
\* Retry.RETRY_AFTER_STATUS_CODES, which the strategy honours because
\* respect_retry_after_header keeps its default (True).
status_forcelist == {429, 500, 502, 503, 504}
RETRY_AFTER_STATUS_CODES == {413, 429, 503}

\* ------------------------------------------------------------- JSON values
\* A JSON value of the token response: absent key, integer, string (a
\* sequence of characters) or list (only its length matters).
JAbsent  == [t |-> "absent", n |-> 0, s |-> <<>>]
JInt(i)  == [t |-> "int",    n |-> i, s |-> <<>>]
JStr(cs) == [t |-> "str",    n |-> 0, s |-> cs]
JList(k) == [t |-> "list",   n |-> k, s |-> <<>>]

DigitChars == <<"0", "1", "2", "3", "4", "5", "6", "7", "8", "9">>

DigitValue(c) == (CHOOSE i \in 1..10 : DigitChars[i] = c) - 1

IsDigit(c) == \E i \in 1..10 : DigitChars[i] = c

\* Python truthiness (`not x`): None, 0, "" and [] are falsy.
Truthy(v) ==
    CASE v.t = "absent" -> FALSE
      [] v.t = "int"    -> v.n # 0
      [] v.t = "str"    -> v.s # <<>>
      [] v.t = "list"   -> v.n # 0

RECURSIVE DigitsValue(_)
DigitsValue(cs) ==
    IF cs = <<>> THEN 0
    ELSE 10 * DigitsValue(SubSeq(cs, 1, Len(cs) - 1)) + DigitValue(cs[Len(cs)])

AllDigits(cs) == cs # <<>> /\ \A i \in 1..Len(cs) : IsDigit(cs[i])

\* Python int(x): an int is itself, a string is parsed as an optionally
\* signed decimal literal (ValueError otherwise), a list is a TypeError.
IntCoerce(v) ==
    CASE v.t = "int" -> [ok |-> TRUE, val |-> v.n]
      [] v.t = "str" ->
            IF AllDigits(v.s) THEN [ok |-> TRUE, val |-> DigitsValue(v.s)]
            ELSE IF Len(v.s) > 1 /\ v.s[1] \in {"-", "+"} /\ AllDigits(Tail(v.s))
                 THEN [ok |-> TRUE,
                       val |-> IF v.s[1] = "-" THEN 0 - DigitsValue(Tail(v.s))
                               ELSE DigitsValue(Tail(v.s))]
                 ELSE [ok |-> FALSE, val |-> 0]
      [] OTHER -> [ok |-> FALSE, val |-> 0]

\* ------------------------------------------------------- remote outcomes
\* What one physical HTTP attempt can produce: no connection, a connection
\* that breaks while reading, or a response with a status, possibly a
\* Retry-After header, and (token endpoint only) a body.
NoBody == [form |-> "none", access_token |-> JAbsent, expires_in |-> JAbsent]

ConnectError == [kind |-> "connect_error", status |-> 0, retry_after |-> FALSE,
                 body |-> NoBody]

ReadError == [kind |-> "read_error", status |-> 0, retry_after |-> FALSE,
              body |-> NoBody]

Resp(st, ra, b) == [kind |-> "response", status |-> st, retry_after |-> ra,
                    body |-> b]

\* The access token string the token endpoint issues with its n-th grant.
TokStr(n) == <<"t", DigitChars[n + 1]>>

AccessTokenValues(n) ==
    {JAbsent, JStr(<<>>), JInt(123)}
    \cup (IF n < MaxTokens THEN {JStr(TokStr(n))} ELSE {})

ExpiresInValues ==
    {JAbsent, JInt(0), JInt(30), JInt(300),
     JStr(<<>>), JStr(<<"a", "b", "c">>), JStr(<<"3", "0", "0">>),
     JList(0), JList(1)}

TokenBodies(n) ==
    {[form |-> "notjson", access_token |-> JAbsent, expires_in |-> JAbsent],
     [form |-> "nonobject", access_token |-> JAbsent, expires_in |-> JAbsent]}
    \cup {[form |-> "object", access_token |-> a, expires_in |-> e] :
            a \in AccessTokenValues(n) \cap {JStr(TokStr(n))}, e \in ExpiresInValues}
    \cup {[form |-> "object", access_token |-> a, expires_in |-> e] :
            a \in AccessTokenValues(n) \ {JStr(TokStr(n))}, e \in {JAbsent, JInt(300)}}

TokenOutcomes(n) ==
    {ConnectError, ReadError, Resp(503, FALSE, NoBody), Resp(400, FALSE, NoBody)}
    \cup {Resp(200, FALSE, b) : b \in TokenBodies(n)}

ApiStatuses == {200, 201, 204, 400, 413, 503}

ApiOutcomes ==
    {ConnectError, ReadError, Resp(413, TRUE, NoBody)}
    \cup {Resp(st, FALSE, NoBody) : st \in ApiStatuses}

\* ------------------------------------------------------ urllib3 Retry
\* retry_strategy of _build_session: total, read, connect and status all
\* start at max_retries.  Every failure lowers total and one of the other
\* three, so total is always the smallest of the four counters and the
\* only one that decides; the model keeps total alone.
Retry(m) == [total |-> m]

\* Retry.is_retry for a method in allowed_methods (every method the
\* clients use, GET and POST, is): a status of the forcelist is always
\* retried; a Retry-After header is honoured on 413/429/503 while total is
\* non-zero.
is_retry(r, status_code, has_retry_after) ==
    \/ status_code \in status_forcelist
    \/ r.total # 0 /\ has_retry_after /\ status_code \in RETRY_AFTER_STATUS_CODES

\* Retry.increment: total drops with every failed attempt (a connection
\* error, a read error of a method in allowed_methods, a retried status).
increment(r, outcome) == [total |-> r.total - 1]

\* Retry.is_exhausted: the smallest non-zero counter is below zero.
is_exhausted(r) == r.total # 0 /\ r.total < 0

\* One physical attempt inside Session.request / urlopen with the mounted
\* adapter: the attempt is retried, or its response is handed back, or a
\* requests.RequestException is raised (raise_on_status is True, so an
\* exhausted status retry raises RetryError instead of returning the
\* last response).
SessionAttempt(r, outcome) ==
    IF outcome.kind = "response"
    THEN IF is_retry(r, outcome.status, outcome.retry_after)
         THEN IF is_exhausted(increment(r, outcome))
              THEN [next |-> "raise", exc |-> "RetryError", retries |-> increment(r, outcome)]
              ELSE [next |-> "retry", exc |-> "", retries |-> increment(r, outcome)]
         ELSE [next |-> "response", exc |-> "", retries |-> r]
    ELSE IF is_exhausted(increment(r, outcome))
         THEN [next |-> "raise", exc |-> "ConnectionError", retries |-> increment(r, outcome)]
         ELSE [next |-> "retry", exc |-> "", retries |-> increment(r, outcome)]

\* ------------------------------------------------------------------ state
VARIABLES
    now,            \* datetime.utcnow(), in seconds
    _token,         \* self._token: the cached TokenData, or None
    _token_lock,    \* self._token_lock: 0 when free, else the holding thread
    th,             \* per thread: position in the call, locals, call history
    issued,         \* access tokens the token endpoint has issued so far
    clock,          \* the wall clock (datetime.now()), in ticks
    log_file,       \* content of the file at TaskLogger._log_path
    _lock,          \* TaskLogger._lock: 0 when free, else the holding thread
    lg,             \* per thread: position in its TaskLogger.log call, locals
    acquired,       \* the log() calls in the order they acquired _lock
    file0,          \* content of the log file when the TaskLogger was made
    _tasks,         \* DailyTaskScheduler._tasks: the ScheduledTask objects
    _stop_event,    \* DailyTaskScheduler._stop_event
    sch,            \* the thread in start(): position, locals
    ran_on,         \* per task: the date its last run began on, -1 for none
    cli,            \* the process running main(): position, exit status
    _patients,      \* HaloFHIRClient._patients
    _appointments,  \* HaloSQLClient._appointments: the stored records
    _sequence,      \* HaloSQLClient._sequence
    sent,           \* number of send_notification calls made so far
    ret,            \* the last call of the appointment agent and its result
    batch,          \* the batch loop under way: position, items, results
    err             \* the last terminal response _request dealt with

haloVars == <<now, _token, _token_lock, th, issued>>

loggerVars == <<clock, log_file, _lock, lg, acquired, file0>>

schedulerVars == <<_tasks, _stop_event, sch, ran_on>>

appointmentVars == <<_patients, _appointments, _sequence, sent, ret>>

agentVars == <<cli, appointmentVars, batch, err>>

orchestratorVars == <<loggerVars, schedulerVars, agentVars>>

vars == <<haloVars, orchestratorVars>>

token_refresh_buffer == DEFAULT_TOKEN_REFRESH_BUFFER_SECONDS

NoToken == [present |-> FALSE, access_token |-> <<>>, expires_at |-> 0]

TokenData(a, e) == [present |-> TRUE, access_token |-> a, expires_at |-> e]

NoResult == [kind |-> "none", token |-> <<>>, status |-> 0]

NoResp == [kind |-> "none", status |-> 0]

\* A thread that is not inside a call.  Fields up to `result` are the
\* call's locals; the rest records what happened during the call:
\* physical requests sent to the token endpoint and to the API, calls of
\* _get_access_token, the path taken through it, and what the session saw.
IdleThread ==
    [pc |-> "idle", op |-> "none", expected_status |-> {}, retries |-> Retry(0),
     token |-> <<>>, result |-> NoResult,
     tokReqs |-> 0, attempts |-> 0, consults |-> 0, path |-> "", sawRefreshAt |-> -1,
     lastResp |-> NoResp, firstResp |-> NoResp,
     all503 |-> TRUE, noResponse |-> TRUE]

\* is_valid with the comparison reversed.
is_valid_reversed(tok, buffer_seconds) == now + buffer_seconds > tok.expires_at

\* TokenData.is_valid
is_valid(tok, buffer_seconds) == now + buffer_seconds < tok.expires_at

Raise(kind, st) == [kind |-> kind, token |-> <<>>, status |-> st]

\* _get_access_token returns tok.access_token: to the caller of a direct
\* call, or into line 191 of _request, which then builds the headers and
\* enters Session.request with a fresh Retry state.
Returned(rec, tok) ==
    IF rec.op = "token"
    THEN [rec EXCEPT !.pc = "done", !.retries = Retry(0), !.sawRefreshAt = -1,
                     !.result = [kind |-> "token", token |-> tok.access_token,
                                 status |-> 0]]
    ELSE [rec EXCEPT !.pc = "req_send", !.sawRefreshAt = -1,
                     !.token = tok.access_token, !.retries = Retry(max_retries)]

\* _get_access_token raises: the exception leaves _request as well.
Raised(rec, kind) ==
    [rec EXCEPT !.pc = "done", !.retries = Retry(0), !.result = Raise(kind, 0)]

\* Lines 124-126: the lock-free fast path.
FastPath(rec) ==
    IF _token.present /\ is_valid(_token, token_refresh_buffer)
    THEN Returned([rec EXCEPT !.path = "fast"], _token)
    ELSE [rec EXCEPT !.pc = "tok_lock", !.path = "locked"]

\* The call history starts: one more consultation of the token cache.
Entered(rec) == [rec EXCEPT !.consults = @ + 1]

\* The threads blocked on the lock at line 128 see, on their way in, that
\* the holder has just stored a fresh token: the instant is recorded.
Waiting(rec) ==
    IF rec.pc = "tok_lock" THEN [rec EXCEPT !.sawRefreshAt = now] ELSE rec

\* Lines 155-174: the token built from a parsed response object.
TokenFromData(data) ==
    IF ~Truthy(data.access_token) \/ data.access_token.t # "str"
    THEN [kind |-> "HaloAuthError", token |-> NoToken]
    ELSE LET expires_in == IF ~Truthy(data.expires_in) THEN JInt(DEFAULT_EXPIRES_IN)
                           ELSE data.expires_in
             expires_in_int == IntCoerce(expires_in)
         IN  IF ~expires_in_int.ok
             THEN [kind |-> "HaloAuthError", token |-> NoToken]
             ELSE [kind |-> "ok",
                   token |-> TokenData(data.access_token.s, now + expires_in_int.val)]

\* Lines 146-153 and on: what the response of the token endpoint leads to.
TokenFromResponse(outcome) ==
    IF outcome.status >= 400 THEN [kind |-> "HaloAuthError", token |-> NoToken]
    ELSE IF outcome.body.form = "notjson" THEN [kind |-> "HaloAuthError", token |-> NoToken]
    ELSE IF outcome.body.form # "object" THEN [kind |-> "AttributeError", token |-> NoToken]
    ELSE TokenFromData(outcome.body)

\* ------------------------------------------------- TaskLogger: the data
\* An Optional value of Python: None, or a value.
None == [is_none |-> TRUE]

Some(v) == [is_none |-> FALSE, value |-> v]

\* Python's truth value of an Optional[str]: None and "" are false.
StrTruthy(o) == ~o.is_none /\ o.value # ""

\* _format_timestamp of an aware UTC datetime: its ISO text, the UTC
\* offset written as Z.
_format_timestamp(moment) == <<moment, "Z">>

\* The file at _log_path: missing; blank (no bytes, or white space only);
\* text that is not JSON; a JSON value that is not a list; a JSON list.
FileAbsent == [form |-> "absent", items |-> <<>>]

FileBlank == [form |-> "blank", items |-> <<>>]

FileInvalid == [form |-> "invalid", items |-> <<>>]

FileNonList == [form |-> "nonlist", items |-> <<>>]

FileList(items) == [form |-> "list", items |-> items]

\* The dict that log() builds (lines 52-63): message is left out when it
\* is None or "", details when it is None.
BuildEntry(args, completed_at) ==
    [task |-> args.task_name,
     status |-> args.status,
     started_at |-> _format_timestamp(IF args.start_time.is_none
                                      THEN completed_at
                                      ELSE args.start_time.value),
     completed_at |-> _format_timestamp(completed_at),
     message |-> IF StrTruthy(args.message) THEN args.message ELSE None,
     details |-> args.details]

\* _read_history (lines 71-85): the list in the file, the empty list for a
\* missing or blank file, ValueError for anything else.
_read_history(file) ==
    CASE file.form = "absent" -> [ok |-> TRUE, history |-> <<>>]
      [] file.form = "blank" -> [ok |-> TRUE, history |-> <<>>]
      [] file.form = "invalid" -> [ok |-> FALSE, history |-> <<>>]
      [] file.form = "nonlist" -> [ok |-> FALSE, history |-> <<>>]
      [] file.form = "list" -> [ok |-> TRUE, history |-> file.items]

\* The rewrite with the new entry alone, the history dropped.
WriteHistory_entry_only(history, entry) == FileList(<<entry>>)

\* Lines 67-69: history.append(entry), then the file is rewritten with the
\* JSON text of the whole list.
WriteHistory(history, entry) == FileList(Append(history, entry))

\* log() run by a thread that meets no contention (lines 52-69).
LogOutcome(file, args, at) ==
    LET r == _read_history(file) IN
    IF r.ok
    THEN [ok |-> TRUE, file |-> WriteHistory(r.history, BuildEntry(args, at))]
    ELSE [ok |-> FALSE, file |-> file]

\* A thread outside log().
NoArgs ==
    [task_name |-> "", status |-> "", start_time |-> None,
     message |-> None, details |-> None]

IdleLog == [pc |-> "idle", args |-> NoArgs, entry |-> BuildEntry(NoArgs, 0),
            history |-> <<>>]

\* No TaskLogger in use.
LoggerIdle ==
    /\ clock = 0
    /\ log_file = FileAbsent
    /\ _lock = 0
    /\ lg = [t \in Threads |-> IdleLog]
    /\ acquired = <<>>
    /\ file0 = FileAbsent

\* No Halo client in use.
HaloIdle ==
    /\ now = 0
    /\ _token = NoToken
    /\ _token_lock = 0
    /\ th = [t \in Threads |-> IdleThread]
    /\ issued = 0

\* ---------------------------------------------- the scheduler: the data
\* datetime.date() and datetime.time() of an instant; datetime.combine.
DateOf(instant) == instant \div DayLen

TimeOf(instant) == instant % DayLen

Combine(date, time_of_day) == date * DayLen + time_of_day

\* _schedule_next without the roll to tomorrow.
_schedule_next_never_tomorrow(time_of_day, instant) ==
    Combine(DateOf(instant), time_of_day)

\* _schedule_next with `candidate < now` for its test.
_schedule_next_today_when_equal(time_of_day, instant) ==
    LET candidate == Combine(DateOf(instant), time_of_day) IN
    IF candidate < instant THEN candidate + DayLen ELSE candidate

\* ScheduledTask._schedule_next (lines 100-105), with `now` the instant
\* datetime.now() returns: the value it assigns to next_run.
_schedule_next(time_of_day, instant) ==
    LET candidate == Combine(DateOf(instant), time_of_day) IN
    IF candidate <= instant THEN candidate + DayLen ELSE candidate

\* ScheduledTask(name, time_of_day, action) made at `instant`
\* (__post_init__, lines 97-98).
ScheduledTask(name, time_of_day, instant) ==
    [name |-> name, time_of_day |-> time_of_day,
     next_run |-> _schedule_next(time_of_day, instant)]

\* The names of the tasks, in the order of registration (lines 216-217).
TaskName(k) ==
    IF k = 1 THEN "daily_recalls" ELSE IF k = 2 THEN "daily_claims" ELSE "daily_other"

\* self._poll_interval_seconds (line 116).
_poll_interval_seconds == IF poll_interval_seconds > 1 THEN poll_interval_seconds ELSE 1

\* What one call of a task's action does: it returns a dict, returns
\* None, raises an Exception with a message or with none, or raises a
\* BaseException that is no Exception (SystemExit, KeyboardInterrupt).
ActionOutcomes ==
    { [kind |-> "return", is_dict |-> TRUE, message |-> ""],
      [kind |-> "return", is_dict |-> FALSE, message |-> ""],
      [kind |-> "raise", is_dict |-> FALSE, message |-> "boom"],
      [kind |-> "raise", is_dict |-> FALSE, message |-> ""],
      [kind |-> "raise_base", is_dict |-> FALSE, message |-> ""] }

\* The dict a task's action returns (recall.py lines 30-34).
ResultDict == {<<"scheduled_count", 0>>}

\* The arguments execute_with_logging passes to logger.log (lines 155-176):
\* status and message change only in `except Exception`.
WrapperLogArgs(task_name, outcome, start_time) ==
    [task_name |-> task_name,
     status |-> IF outcome.kind = "raise" THEN "failed" ELSE "success",
     start_time |-> Some(start_time),
     message |-> IF outcome.kind = "raise" THEN Some(outcome.message) ELSE None,
     details |-> IF outcome.kind = "return" /\ outcome.is_dict
                 THEN Some(ResultDict) ELSE None]

\* execute_with_logging (lines 150-176) for an action that began at
\* start_time and finished with `outcome` at `instant`: the file it
\* leaves and what it raises to its caller.  An error of logger.log in
\* the finally block replaces whatever the action returned or raised.
execute_with_logging(file, task_name, outcome, start_time, instant) ==
    LET logged == LogOutcome(file, WrapperLogArgs(task_name, outcome, start_time), instant) IN
    [file |-> logged.file,
     raised |-> IF ~logged.ok THEN "ValueError"
                ELSE IF outcome.kind = "raise" THEN "Exception"
                ELSE IF outcome.kind = "raise_base" THEN "BaseException"
                ELSE "none"]

\* The thread that is to call start(), before the call.
\* stopped_in_run keeps whether the stop signal arrived while a task was
\* running; due and ran keep, for the poll iteration under way, the tasks
\* whose next_run had come when it began and the tasks it has run so far.
IdleScheduler == [pc |-> "init", now |-> 0, i |-> 0, start_time |-> 0,
                  wake_at |-> 0, runs |-> 0, stopped_in_run |-> FALSE,
                  due |-> {}, ran |-> <<>>]

\* No scheduler in use.
SchedulerIdle ==
    /\ _tasks = <<>>
    /\ _stop_event = FALSE
    /\ sch = IdleScheduler
    /\ ran_on = <<>>

\* ------------------------------------- the appointment agent: the data
\* str.strip(): leading and trailing blanks removed.
RECURSIVE lstrip(_)
lstrip(cs) == IF cs # <<>> /\ cs[1] = " " THEN lstrip(Tail(cs)) ELSE cs

RECURSIVE rstrip(_)
rstrip(cs) ==
    IF cs # <<>> /\ cs[Len(cs)] = " "
    THEN rstrip(SubSeq(cs, 1, Len(cs) - 1)) ELSE cs

strip(cs) == rstrip(lstrip(cs))

\* str(n) of a natural number: its decimal digits.
RECURSIVE str(_)
str(n) ==
    IF n < 10 THEN <<DigitChars[n + 1]>>
    ELSE Append(str(n \div 10), DigitChars[(n % 10) + 1])

\* _validate_identifier (appointments.py lines 21-24): ValueError for a
\* value that is no string or is blank, else the stripped string.
_validate_identifier(value) ==
    IF value.t # "str" \/ strip(value.s) = <<>>
    THEN [ok |-> FALSE, value |-> <<>>]
    ELSE [ok |-> TRUE, value |-> strip(value.s)]

\* A datetime.datetime: an instant, and whether it carries a tzinfo
\* (aware) or not (naive).  NotADateTime is any other object.
DateTime(instant, aware) == [t |-> "datetime", instant |-> instant, aware |-> aware]

NotADateTime == [t |-> "other", instant |-> 0, aware |-> FALSE]

\* datetime.__eq__: a naive and an aware datetime are never equal.
DateTimeEq(a, b) == a.aware = b.aware /\ a.instant = b.instant

\* datetime.__lt__ raises TypeError for a naive and an aware operand.
DateTimeComparable(a, b) == a.aware = b.aware

\* AppointmentRecord (connector/__init__.py lines 10-17).
AppointmentRecord(appointment_id, patient_id, provider_id, scheduled_time) ==
    [appointment_id |-> appointment_id, patient_id |-> patient_id,
     provider_id |-> provider_id, scheduled_time |-> scheduled_time]

\* HaloFHIRClient.patient_exists (lines 31-32).
patient_exists(patients, patient_id) == patient_id \in patients

\* is_slot_available with the provider test turned round.
is_slot_available_other_provider(appointments, provider_id, scheduled_time) ==
    ~ \E k \in 1..Len(appointments) :
          /\ appointments[k].provider_id # provider_id
          /\ DateTimeEq(appointments[k].scheduled_time, scheduled_time)

\* HaloSQLClient.is_slot_available (lines 42-49).  `appointments` holds
\* the values of the dict in insertion order.
is_slot_available(appointments, provider_id, scheduled_time) ==
    ~ \E k \in 1..Len(appointments) :
          /\ appointments[k].provider_id = provider_id
          /\ DateTimeEq(appointments[k].scheduled_time, scheduled_time)

\* HaloSQLClient.create_appointment (lines 51-63): the record it stores.
create_appointment(sequence, patient_id, provider_id, scheduled_time) ==
    AppointmentRecord(str(sequence), patient_id, provider_id, scheduled_time)

\* send_notification called whether or not the booking went through.
Notifications_always(raised) == 1

\* The number of send_notification calls of one book_appointment call:
\* line 64 is reached only when nothing raised before it.
Notifications(raised) == IF raised = "none" THEN 1 ELSE 0

\* book_appointment (appointments.py lines 33-71) on a store: what it
\* raises, the store it leaves, the dict it returns.
book_appointment(patients, appointments, sequence, patient_id, provider_id, datetime) ==
    LET p == _validate_identifier(patient_id)
        q == _validate_identifier(provider_id)
        failed(exc, msg) ==
            [raised |-> exc, message |-> msg, appointments |-> appointments,
             sequence |-> sequence, result |-> <<>>]
        record == create_appointment(sequence, p.value, q.value, datetime)
    IN  IF ~p.ok \/ ~q.ok THEN failed("ValueError", "identifier")
        ELSE IF datetime.t # "datetime" THEN failed("TypeError", "datetime")
        ELSE IF ~patient_exists(patients, p.value)
             THEN failed("ValueError", "not registered")
        ELSE IF ~is_slot_available(appointments, q.value, datetime)
             THEN failed("ValueError", "unavailable")
        ELSE [raised |-> "none", message |-> "",
              appointments |-> Append(appointments, record),
              sequence |-> sequence + 1, result |-> <<record>>]

\* The dict without its oldest key, whatever the id asked for.
DeleteKey_oldest(appointments, appointment_id) == Tail(appointments)

\* `del self._appointments[appointment_id]` (line 67).
DeleteKey(appointments, appointment_id) ==
    SelectSeq(appointments, LAMBDA record : record.appointment_id # appointment_id)

\* `appointment_id in self._appointments` (line 66).
HasKey(appointments, appointment_id) ==
    \E k \in 1..Len(appointments) : appointments[k].appointment_id = appointment_id

\* cancel_appointment (appointments.py lines 74-85, connector lines 65-69).
cancel_appointment(appointments, appointment_id) ==
    LET a == _validate_identifier(appointment_id) IN
    IF ~a.ok
    THEN [raised |-> "ValueError", message |-> "identifier", appointments |-> appointments]
    ELSE IF ~HasKey(appointments, a.value)
    THEN [raised |-> "ValueError", message |-> "does not exist", appointments |-> appointments]
    ELSE [raised |-> "none", message |-> "", appointments |-> DeleteKey(appointments, a.value)]

\* sorted(records, key=scheduled_time) for records whose keys can be
\* ordered: a stable sort, equal keys keep the order they came in.
RECURSIVE sorted(_)
sorted(records) ==
    IF records = <<>> THEN <<>>
    ELSE LET front == sorted(SubSeq(records, 1, Len(records) - 1))
             last == records[Len(records)]
             k == Cardinality({j \in 1..Len(front) :
                     front[j].scheduled_time.instant <= last.scheduled_time.instant})
         IN  SubSeq(front, 1, k) \o <<last>> \o SubSeq(front, k + 1, Len(front))

\* get_patient_schedule (appointments.py lines 88-107, connector lines
\* 71-77).  sorted() has to compare a naive with an aware datetime when
\* the list holds both, and that comparison raises TypeError.
get_patient_schedule(appointments, patient_id) ==
    LET p == _validate_identifier(patient_id)
        records == SelectSeq(appointments, LAMBDA record : record.patient_id = p.value)
    IN  IF ~p.ok THEN [raised |-> "ValueError", message |-> "identifier", result |-> <<>>]
        ELSE IF \E i, j \in 1..Len(records) :
                   ~DateTimeComparable(records[i].scheduled_time, records[j].scheduled_time)
        THEN [raised |-> "TypeError", message |-> "compare", result |-> <<>>]
        ELSE [raised |-> "none", message |-> "", result |-> sorted(records)]

\* No appointment store in use; the last call: none.  `arg` keeps the
\* identifier a cancel_appointment or get_patient_schedule call was given.
NoCall == [op |-> "none", arg |-> JAbsent, raised |-> "none", message |-> "",
           result |-> <<>>]

AppointmentsIdle ==
    /\ _patients = {}
    /\ _appointments = <<>>
    /\ _sequence = 1
    /\ sent = 0
    /\ ret = NoCall

\* ------------------------------------------------------ the batch loops
\* The loops that work through a list of items: run_daily_billing over
\* the completed appointments, RecallAgent.run over the due recalls,
\* run_claims over the entries of the pending-claims file.
BatchRoutines == {"run_daily_billing", "RecallAgent.run", "run_claims"}

\* What one item leads to in the loop body.  Billing: _process_appointment
\* returns, or raises one of its two errors, or an AttributeError (an
\* appointment that is no JSON object, a claim status that is no string).
\* Recalls: the recall is not due, the reminder is sent, or anything in
\* that raises.  Claims: the entry is a JSON object or it is not.
ItemKinds(routine) ==
    CASE routine = "run_daily_billing" ->
            {"ok", "BillingConfigurationError", "HaloFHIRClientError", "AttributeError"}
      [] routine = "RecallAgent.run" -> {"ok", "not_due", "Exception"}
      [] routine = "run_claims" -> {"object", "nonobject"}

\* The item raises in the loop body.
ItemRaises(routine, kind) == kind \notin {"ok", "not_due", "object"}

\* The exception of an item is caught inside the loop body: billing
\* catches its two errors (billing.py lines 173-186), recalls catch
\* Exception (recalls.py line 196), run_claims has no try (main.py
\* lines 206-208).
ItemCaught(routine, kind) ==
    CASE routine = "run_daily_billing" ->
            kind \in {"BillingConfigurationError", "HaloFHIRClientError"}
      [] routine = "RecallAgent.run" -> TRUE
      [] routine = "run_claims" -> FALSE

\* The item gets a result: a claim result appended, a recall result
\* appended (failures included), a claim passed to queue_claim.
ItemRecorded(routine, kind) ==
    CASE routine = "run_daily_billing" -> kind = "ok"
      [] routine = "RecallAgent.run" -> kind # "not_due"
      [] routine = "run_claims" -> kind = "object"

\* No batch under way.  visited: the items the loop body was entered
\* for; recorded: the items with a result; finished: the step after the
\* loop (report written, submit_claims called) was reached.
IdleBatch == [pc |-> "idle", routine |-> "", items |-> <<>>, i |-> 0,
              visited |-> {}, recorded |-> <<>>, finished |-> FALSE]

\* ------------------------------------------- error responses: the data
\* The length response.text is cut to for the log (halo_client.py line 232).
BODY_EXCERPT_CHARS == 2048

\* A response body: the length of its text, and whether the text is JSON.
Body(length, is_json) == [length |-> length, is_json |-> is_json]

BodyInputs ==
    {Body(n, j) : n \in {2, 100, 2048, 2049, 5000}, j \in BOOLEAN}
    \cup {Body(0, FALSE)}

\* The Content-Type header of the response; "" when there is none.
ContentTypes == {"application/json", "application/fhir+json", "text/html", ""}

\* `"json" in content_type` (line 224).
MentionsJson(content_type) ==
    content_type \in {"application/json", "application/fhir+json"}

\* text[:limit]: the number of characters kept.
SliceLength(length, limit) == IF length < limit THEN length ELSE limit

\* _log_error_response (lines 221-233): what logger.error is given for
\* the body, and how many characters of the body that holds.  A body that
\* parses is logged as the parsed value, all of it.
_log_error_response(content_type, body) ==
    IF MentionsJson(content_type) /\ body.is_json
    THEN [form |-> "parsed", body_chars |-> body.length]
    ELSE [form |-> "text", body_chars |-> SliceLength(body.length, BODY_EXCERPT_CHARS)]

\* The characters of the body in the message of the HaloAPIError (lines
\* 215-217): response.text as it is.
ErrorMessageBodyChars(body) == body.length

\* No response handled yet.
IdleError == [outcome |-> "none", status |-> 0, content_type |-> "",
              body |-> Body(0, FALSE), logged |-> [form |-> "none", body_chars |-> 0], message_chars |-> 0]

\* ------------------------------------------------- main(): the data
\* The exit status of a process whose main() let an exception escape:
\* the interpreter prints the traceback and exits with 1.
UNCAUGHT_EXIT_STATUS == 1

\* The process before main() is called; exit_code -1 while it runs.
IdleMain == [pc |-> "init", command |-> "", start_time |-> 0,
             outcome |-> "", raised |-> "none", exit_code |-> -1]

\* No agent in use.
AgentsIdle ==
    /\ cli = IdleMain
    /\ AppointmentsIdle
    /\ batch = IdleBatch
    /\ err = IdleError

Init ==
    /\ HaloIdle
    /\ LoggerIdle
    /\ SchedulerIdle
    /\ AgentsIdle

\* The clock advances.
Tick ==
    /\ now + TickSeconds <= MaxTicks * TickSeconds
    /\ now' = now + TickSeconds
    /\ UNCHANGED <<_token, _token_lock, th, issued>>
    /\ UNCHANGED orchestratorVars

\* A thread calls _get_access_token and runs its fast path.
CallGetToken(t) ==
    /\ th[t].pc = "idle"
    /\ th' = [th EXCEPT ![t] = FastPath(Entered([IdleThread EXCEPT !.op = "token"]))]
    /\ UNCHANGED <<now, _token, _token_lock, issued>>
    /\ UNCHANGED orchestratorVars

\* Lines 128-131: the thread gets the lock and checks the cache again; it
\* leaves the with-block at once when the cache is valid by now.
AcquireLock(t) ==
    /\ th[t].pc = "tok_lock"
    /\ _token_lock = 0
    /\ IF _token.present /\ is_valid(_token, token_refresh_buffer)
       THEN /\ th' = [th EXCEPT ![t] = Returned(th[t], _token)]
            /\ UNCHANGED _token_lock
       ELSE /\ th' = [th EXCEPT ![t] = [@ EXCEPT !.pc = "tok_post",
                                                !.retries = Retry(max_retries),
                                                !.sawRefreshAt = -1]]
            /\ _token_lock' = t
    /\ UNCHANGED <<now, _token, issued>>
    /\ UNCHANGED orchestratorVars

\* A with-block that releases the lock on return but not on an exception.
WithExit_on_return_only(holder, raised) == IF raised THEN holder ELSE 0

\* Leaving `with self._token_lock:` (line 128), by a return or by an
\* exception: the lock is released either way.
WithExit(holder, raised) == 0

\* Lines 145-174: one physical request to the token endpoint, sent through
\* the retrying session while the lock is held, and what follows from its
\* outcome.
TokenAttempt(t, outcome) ==
    /\ th[t].pc = "tok_post"
    /\ _token_lock = t
    /\ issued' = IF outcome.body.access_token = JStr(TokStr(issued))
                 THEN issued + 1 ELSE issued
    /\ LET sa  == SessionAttempt(th[t].retries, outcome)
           rec == [th[t] EXCEPT !.tokReqs = @ + 1, !.retries = sa.retries]
       IN  CASE sa.next = "retry" ->
                  /\ th' = [th EXCEPT ![t] = rec]
                  /\ UNCHANGED <<_token, _token_lock>>
             [] sa.next = "raise" ->
                  /\ th' = [th EXCEPT ![t] = Raised(rec, "HaloAuthError")]
                  /\ _token_lock' = WithExit(t, TRUE)
                  /\ UNCHANGED _token
             [] sa.next = "response" ->
                  LET got == TokenFromResponse(outcome)
                  IN  /\ _token_lock' = WithExit(t, got.kind # "ok")
                      /\ IF got.kind = "ok"
                         THEN /\ _token' = got.token
                              /\ th' = [u \in Threads |->
                                          IF u = t THEN Returned(rec, got.token)
                                          ELSE Waiting(th[u])]
                         ELSE /\ UNCHANGED _token
                              /\ th' = [th EXCEPT ![t] = Raised(rec, got.kind)]
    /\ UNCHANGED <<now>>
    /\ UNCHANGED orchestratorVars

\* The expected_status argument of _request: an int or a tuple of ints.
ExpectedStatusArgs ==
    {[isint |-> TRUE, int |-> 201, tuple |-> {}],
     [isint |-> FALSE, int |-> 0, tuple |-> {200}],
     [isint |-> FALSE, int |-> 0, tuple |-> {200, 201}]}

\* Lines 188-189: an int becomes a one-element tuple.
NormalizeExpected(arg) == IF arg.isint THEN {arg.int} ELSE arg.tuple

\* The status check taking any 2xx for a success.
StatusAccepted_any2xx(status_code, expected_status) ==
    status_code \in expected_status \/ (200 <= status_code /\ status_code < 300)

\* Line 213: the check of the final response's status.
StatusAccepted(status_code, expected_status) == status_code \in expected_status

\* Lines 186-198: a thread calls _request; an empty path is rejected,
\* otherwise the token is fetched (here: the fast path of
\* _get_access_token) before the headers are built.
CallRequest(t, path_given, arg) ==
    /\ th[t].pc = "idle"
    /\ IF ~path_given
       THEN th' = [th EXCEPT ![t] = [IdleThread EXCEPT !.op = "request", !.pc = "done",
                                                      !.result = Raise("ValueError", 0)]]
       ELSE th' = [th EXCEPT ![t] =
                     FastPath(Entered([IdleThread EXCEPT
                                          !.op = "request",
                                          !.expected_status = NormalizeExpected(arg)]))]
    /\ UNCHANGED <<now, _token, _token_lock, issued>>
    /\ UNCHANGED orchestratorVars

\* Lines 200-219: one physical attempt of Session.request, carrying the
\* headers built at lines 193-198, and what follows from its outcome.
RequestAttempt(t, outcome) ==
    /\ th[t].pc = "req_send"
    /\ LET sa  == SessionAttempt(th[t].retries, outcome)
           seen == IF outcome.kind = "response"
                   THEN [kind |-> "response", status |-> outcome.status]
                   ELSE [kind |-> "error", status |-> 0]
           rec == [th[t] EXCEPT
                     !.attempts = @ + 1,
                     !.retries = sa.retries,
                     !.firstResp = IF th[t].attempts = 0 THEN seen ELSE @,
                     !.lastResp = IF sa.next = "response" THEN seen ELSE NoResp,
                     !.all503 = @ /\ outcome.kind = "response" /\ outcome.status = 503,
                     !.noResponse = @ /\ outcome.kind # "response"]
       IN  CASE sa.next = "retry" ->
                  th' = [th EXCEPT ![t] = rec]
             [] sa.next = "raise" ->
                  th' = [th EXCEPT ![t] = [rec EXCEPT !.pc = "done", !.retries = Retry(0),
                                                     !.result = Raise("HaloAPIError", 0)]]
             [] sa.next = "response" ->
                  IF StatusAccepted(outcome.status, th[t].expected_status)
                  THEN th' = [th EXCEPT ![t] =
                                [rec EXCEPT !.pc = "done", !.retries = Retry(0),
                                            !.result = [kind |-> "response", token |-> <<>>,
                                                        status |-> outcome.status]]]
                  ELSE th' = [th EXCEPT ![t] =
                                [rec EXCEPT !.pc = "done", !.retries = Retry(0),
                                            !.result = Raise("HaloAPIError", outcome.status)]]
    /\ UNCHANGED <<now, _token, _token_lock, issued>>
    /\ UNCHANGED orchestratorVars

\* The caller takes the result; the thread is free for another call.
Finish(t) ==
    /\ th[t].pc = "done"
    /\ th' = [th EXCEPT ![t] = IdleThread]
    /\ UNCHANGED <<now, _token, _token_lock, issued>>
    /\ UNCHANGED orchestratorVars

\* Threads calling _get_access_token concurrently on one client.
Next ==
    \/ Tick
    \/ \E t \in Threads : CallGetToken(t)
    \/ \E t \in Threads : AcquireLock(t)
    \/ \E t \in Threads : \E outcome \in TokenOutcomes(issued) : TokenAttempt(t, outcome)
    \/ \E t \in Threads : Finish(t)

Spec == Init /\ [][Next]_vars

\* One thread issuing _request calls, one after the other, on one client.
RequestThreads == {1}

NextRequest ==
    \/ Tick
    \/ \E t \in RequestThreads : \E path_given \in BOOLEAN : \E arg \in ExpectedStatusArgs :
            CallRequest(t, path_given, arg)
    \/ \E t \in RequestThreads : AcquireLock(t)
    \/ \E t \in RequestThreads : \E outcome \in TokenOutcomes(issued) : TokenAttempt(t, outcome)
    \/ \E t \in RequestThreads : \E outcome \in ApiOutcomes : RequestAttempt(t, outcome)
    \/ \E t \in RequestThreads : Finish(t)

SpecRequest == Init /\ [][NextRequest]_vars

\* --------------------------------------------- TaskLogger: the operations
\* The arguments of the log() calls: the scheduler's start notice (line
\* 218) and what execute_with_logging passes for an action that returned
\* a dict, raised with a message, raised with an empty message.
StartedArgs ==
    [task_name |-> "scheduler", status |-> "started", start_time |-> None,
     message |-> Some("Daily scheduler started."), details |-> None]

LogArgs ==
    { StartedArgs,
      [task_name |-> "daily_recalls", status |-> "success", start_time |-> Some(0),
       message |-> None, details |-> Some({<<"scheduled_count", 0>>})],
      [task_name |-> "daily_claims", status |-> "failed", start_time |-> Some(0),
       message |-> Some("boom"), details |-> None],
      [task_name |-> "daily_claims", status |-> "failed", start_time |-> Some(0),
       message |-> Some(""), details |-> None] }

\* What the file may hold when the first log() call is made.
InitialLogFiles ==
    { FileAbsent, FileBlank, FileInvalid, FileNonList, FileList(<<>>),
      FileList(<<BuildEntry(StartedArgs, 0)>>) }

InitLogger ==
    /\ HaloIdle
    /\ clock = 0
    /\ log_file \in InitialLogFiles
    /\ file0 = log_file
    /\ _lock = 0
    /\ lg = [t \in Threads |-> IdleLog]
    /\ acquired = <<>>
    /\ SchedulerIdle
    /\ AgentsIdle

\* The clock advances.
TickLog ==
    /\ clock < MaxLogTicks
    /\ clock' = clock + 1
    /\ UNCHANGED <<log_file, _lock, lg, acquired, file0>>
    /\ UNCHANGED <<haloVars, schedulerVars, agentVars>>

\* Calls of log() begun so far.
LogCallsBegun == Len(acquired) + Cardinality({t \in Threads : lg[t].pc = "lock"})

\* A thread calls log() and builds its entry (lines 52-63).
CallLog(t, args) ==
    /\ lg[t].pc = "idle"
    /\ LogCallsBegun < MaxLogCalls
    /\ lg' = [lg EXCEPT ![t] = [pc |-> "lock", args |-> args,
                                entry |-> BuildEntry(args, clock),
                                history |-> <<>>]]
    /\ UNCHANGED <<clock, log_file, _lock, acquired, file0>>
    /\ UNCHANGED <<haloVars, schedulerVars, agentVars>>

\* A lock that excludes nobody.
LockFree_never_held(holder) == TRUE

\* threading.Lock: acquirable when no thread holds it.
LockFree(holder) == holder = 0

\* The thread enters `with self._lock` (line 65).
AcquireLogLock(t) ==
    /\ lg[t].pc = "lock"
    /\ LockFree(_lock)
    /\ _lock' = t
    /\ lg' = [lg EXCEPT ![t].pc = "read"]
    /\ acquired' = Append(acquired, [args |-> lg[t].args, entry |-> lg[t].entry])
    /\ UNCHANGED <<clock, log_file, file0>>
    /\ UNCHANGED <<haloVars, schedulerVars, agentVars>>

\* history = self._read_history() (line 66); a ValueError leaves the
\* with block, which releases the lock.
ReadHistory(t) ==
    /\ lg[t].pc = "read"
    /\ LET r == _read_history(log_file) IN
       IF r.ok
       THEN /\ lg' = [lg EXCEPT ![t].pc = "write", ![t].history = r.history]
            /\ UNCHANGED _lock
       ELSE /\ lg' = [lg EXCEPT ![t].pc = "raised"]
            /\ _lock' = 0
    /\ UNCHANGED <<clock, log_file, acquired, file0>>
    /\ UNCHANGED <<haloVars, schedulerVars, agentVars>>

\* history.append(entry); the file is rewritten; the lock is released
\* (lines 67-69).
WriteLog(t) ==
    /\ lg[t].pc = "write"
    /\ log_file' = WriteHistory(lg[t].history, lg[t].entry)
    /\ _lock' = 0
    /\ lg' = [lg EXCEPT ![t].pc = "returned", ![t].history = <<>>]
    /\ UNCHANGED <<clock, acquired, file0>>
    /\ UNCHANGED <<haloVars, schedulerVars, agentVars>>

\* The caller of log() goes on.
LogReturn(t) ==
    /\ lg[t].pc \in {"returned", "raised"}
    /\ lg' = [lg EXCEPT ![t] = IdleLog]
    /\ UNCHANGED <<clock, log_file, _lock, acquired, file0>>
    /\ UNCHANGED <<haloVars, schedulerVars, agentVars>>

\* Threads calling log() concurrently on one TaskLogger.
NextLogger ==
    \/ TickLog
    \/ \E t \in Threads : \E args \in LogArgs : CallLog(t, args)
    \/ \E t \in Threads : AcquireLogLock(t)
    \/ \E t \in Threads : ReadHistory(t)
    \/ \E t \in Threads : WriteLog(t)
    \/ \E t \in Threads : LogReturn(t)

SpecLogger == InitLogger /\ [][NextLogger]_vars

\* -------------------------------------------- the scheduler: operations
InitScheduler ==
    /\ HaloIdle
    /\ clock = 0
    /\ log_file \in {FileAbsent, FileInvalid}
    /\ file0 = log_file
    /\ _lock = 0
    /\ lg = [t \in Threads |-> IdleLog]
    /\ acquired = <<>>
    /\ SchedulerIdle
    /\ AgentsIdle

\* What the scheduler's steps leave alone: the Halo client, the other
\* threads' log() calls, the lock (taken and released inside one step).
SchedulerFrame == UNCHANGED <<haloVars, _lock, lg, acquired, file0, agentVars>>

\* The wall clock advances.
TickClock ==
    /\ clock < MaxClock
    /\ clock' = clock + 1
    /\ UNCHANGED <<log_file, schedulerVars>>
    /\ SchedulerFrame

\* add_daily_task (lines 120-123), called before start().
add_daily_task(run_time) ==
    /\ sch.pc = "init"
    /\ Len(_tasks) < MaxTasks
    /\ _tasks' = Append(_tasks, ScheduledTask(TaskName(Len(_tasks) + 1), run_time, clock))
    /\ ran_on' = Append(ran_on, -1)
    /\ UNCHANGED <<clock, log_file, _stop_event, sch>>
    /\ SchedulerFrame

\* start() is called on the main thread and installs the signal handlers
\* (lines 126-128).
start ==
    /\ sch.pc = "init"
    /\ sch' = [sch EXCEPT !.pc = "check"]
    /\ UNCHANGED <<clock, log_file, _tasks, _stop_event, ran_on>>
    /\ SchedulerFrame

\* SIGINT or SIGTERM arrives while start() runs: _handle_stop_signal
\* (lines 146-147).
_handle_stop_signal ==
    /\ sch.pc \in {"check", "loop", "running", "sleep"}
    /\ ~_stop_event
    /\ _stop_event' = TRUE
    /\ sch' = [sch EXCEPT !.stopped_in_run = (sch.pc = "running")]
    /\ UNCHANGED <<clock, log_file, _tasks, ran_on>>
    /\ SchedulerFrame

\* A loop condition that never looks at the flag.
LoopCondition_always(stop_is_set) == TRUE

\* The condition of the while loop (line 131).
LoopCondition(stop_is_set) == ~stop_is_set

\* `while not self._stop_event.is_set()` (line 131): start() returns
\* through its finally block (lines 143-144), or a poll iteration begins
\* with now = datetime.now() (line 132).
CheckStop ==
    /\ sch.pc = "check"
    /\ IF ~LoopCondition(_stop_event)
       THEN sch' = [sch EXCEPT !.pc = "returned"]
       ELSE /\ sch.runs + Len(_tasks) <= MaxRuns
            /\ sch' = [sch EXCEPT !.pc = "loop", !.now = clock, !.i = 1,
                                  !.due = {k \in 1..Len(_tasks) :
                                             _tasks[k].next_run <= clock}]
    /\ UNCHANGED <<clock, log_file, _tasks, _stop_event, ran_on>>
    /\ SchedulerFrame

\* The test of line 134 with `>` for `>=`.
IsDue_after_only(instant, task) == instant > task.next_run

\* The test of line 134.
IsDue(instant, task) == instant >= task.next_run

\* A task that is not due is passed over (line 134).
SkipTask ==
    /\ sch.pc = "loop"
    /\ sch.i <= Len(_tasks)
    /\ ~IsDue(sch.now, _tasks[sch.i])
    /\ sch' = [sch EXCEPT !.i = @ + 1]
    /\ UNCHANGED <<clock, log_file, _tasks, _stop_event, ran_on>>
    /\ SchedulerFrame

\* A due task: execute_with_logging reads start_time and calls the
\* action (lines 136, 155-161).
StartTask ==
    /\ sch.pc = "loop"
    /\ sch.i <= Len(_tasks)
    /\ IsDue(sch.now, _tasks[sch.i])
    /\ sch' = [sch EXCEPT !.pc = "running", !.start_time = clock, !.runs = @ + 1,
                          !.ran = Append(@, sch.i)]
    /\ ran_on' = [ran_on EXCEPT ![sch.i] = DateOf(clock)]
    /\ UNCHANGED <<clock, log_file, _tasks, _stop_event>>
    /\ SchedulerFrame

\* The action finishes: execute_with_logging logs and returns or raises
\* (lines 162-176); the loop discards an Exception (lines 137-139);
\* mark_executed runs in the finally block (lines 140-141); any other
\* exception leaves start() through its finally block (lines 143-144).
FinishTask(outcome) ==
    /\ sch.pc = "running"
    /\ LET task == _tasks[sch.i]
           r == execute_with_logging(log_file, task.name, outcome, sch.start_time, clock)
       IN /\ log_file' = r.file
          /\ _tasks' = [_tasks EXCEPT ![sch.i].next_run = _schedule_next(task.time_of_day, clock)]
          /\ IF r.raised = "BaseException"
             THEN /\ sch' = [sch EXCEPT !.pc = "raised", !.start_time = 0,
                                        !.due = {}, !.ran = <<>>]
                  /\ _stop_event' = TRUE
             ELSE /\ sch' = [sch EXCEPT !.pc = "loop", !.i = @ + 1, !.start_time = 0]
                  /\ UNCHANGED _stop_event
    /\ UNCHANGED <<clock, ran_on>>
    /\ SchedulerFrame

\* The for loop is through; time.sleep begins (line 142).
Sleep ==
    /\ sch.pc = "loop"
    /\ sch.i > Len(_tasks)
    /\ sch' = [sch EXCEPT !.pc = "sleep", !.wake_at = clock + _poll_interval_seconds,
                          !.due = {}, !.ran = <<>>]
    /\ UNCHANGED <<clock, log_file, _tasks, _stop_event, ran_on>>
    /\ SchedulerFrame

\* time.sleep returns, at the end of the interval or any time later.
Wake ==
    /\ sch.pc = "sleep"
    /\ clock >= sch.wake_at
    /\ sch' = [sch EXCEPT !.pc = "check", !.wake_at = 0]
    /\ UNCHANGED <<clock, log_file, _tasks, _stop_event, ran_on>>
    /\ SchedulerFrame

\* The steps of the thread in start().
SchedulerStep ==
    \/ CheckStop
    \/ SkipTask
    \/ StartTask
    \/ \E outcome \in ActionOutcomes : FinishTask(outcome)
    \/ Sleep
    \/ Wake

\* One scheduler: tasks are registered, start() runs the poll loop, the
\* clock advances, a termination signal may arrive.
NextScheduler ==
    \/ TickClock
    \/ \E run_time \in 0..(DayLen - 1) : add_daily_task(run_time)
    \/ start
    \/ _handle_stop_signal
    \/ CheckStop
    \/ SkipTask
    \/ StartTask
    \/ \E outcome \in ActionOutcomes : FinishTask(outcome)
    \/ Sleep
    \/ Wake

SpecScheduler == InitScheduler /\ [][NextScheduler]_vars

\* The same, the thread in start() going on as long as it can (an action
\* that has begun finishes, a sleep ends) and time passing up to the last
\* instant followed.
SpecSchedulerFair ==
    /\ InitScheduler
    /\ [][NextScheduler]_vars
    /\ WF_vars(SchedulerStep)
    /\ WF_vars(TickClock)

\* ------------------------------------------------ main(): operations
\* One run of `python -m orchestrator.main run_recalls|run_claims`; the
\* run_scheduler command is the scheduler above.
InitMain ==
    /\ HaloIdle
    /\ clock = 0
    /\ log_file \in InitialLogFiles
    /\ file0 = log_file
    /\ _lock = 0
    /\ lg = [t \in Threads |-> IdleLog]
    /\ acquired = <<>>
    /\ SchedulerIdle
    /\ AgentsIdle

\* What the process steps leave alone.
MainFrame ==
    UNCHANGED <<haloVars, _lock, lg, acquired, file0, schedulerVars,
                appointmentVars, batch, err>>

\* The name execute_with_logging is given for a command (lines 241-244).
CommandTaskName(command) ==
    IF command = "run_recalls" THEN "daily_recalls" ELSE "daily_claims"

\* What run_recalls and run_claims do: return or raise an Exception.  (A
\* SystemExit or KeyboardInterrupt sets an exit status of its own.)
CommandOutcomes == {o \in ActionOutcomes : o.kind # "raise_base"}

\* Lines 237-251: main() has no try; `return 0` is reached only when
\* execute_with_logging returns, and sys.exit(main()) is not reached
\* with an exception under way.
ExitStatus(raised) == IF raised = "none" THEN 0 ELSE UNCAUGHT_EXIT_STATUS

\* main() up to the call of the action inside execute_with_logging
\* (lines 238-244, 154-158).
MainStart(command) ==
    /\ cli.pc = "init"
    /\ cli' = [cli EXCEPT !.pc = "running", !.command = command,
                          !.start_time = clock]
    /\ UNCHANGED <<clock, log_file>>
    /\ MainFrame

\* The action ends, execute_with_logging logs and returns or raises,
\* the process exits (lines 159-176, 247, 251).
MainFinish(outcome) ==
    LET r == execute_with_logging(log_file, CommandTaskName(cli.command),
                                  outcome, cli.start_time, clock) IN
    /\ cli.pc = "running"
    /\ log_file' = r.file
    /\ cli' = [cli EXCEPT !.pc = "exited", !.outcome = outcome.kind,
                          !.raised = r.raised,
                          !.exit_code = ExitStatus(r.raised)]
    /\ UNCHANGED clock
    /\ MainFrame

NextMain ==
    \/ TickClock
    \/ \E command \in {"run_recalls", "run_claims"} : MainStart(command)
    \/ \E outcome \in CommandOutcomes : MainFinish(outcome)

SpecMain == InitMain /\ [][NextMain]_vars

\* ------------------------------------ the appointment agent: operations
\* The values callers pass: identifiers with and without blanks around
\* them, blank ones, an int; datetimes naive and aware, another object.
PatientInputs == {JStr(<<"p">>), JStr(<<"p", " ">>), JStr(<<"q">>)}

ProviderInputs == {JStr(<<"d">>), JStr(<<"e">>), JStr(<<>>)}

DateTimeInputs ==
    {DateTime(0, FALSE), DateTime(1, FALSE), DateTime(0, TRUE), NotADateTime}

AppointmentIdInputs ==
    {JStr(str(n)) : n \in 1..MaxBookings}
    \cup {JStr(<<" ", "1">>), JInt(1)}

AppointmentFrame ==
    UNCHANGED <<haloVars, loggerVars, schedulerVars, cli, batch, err>>

\* HaloFHIRClient.register_patient (connector lines 26-29).
register_patient(patient_id) ==
    /\ IF ~Truthy(patient_id)
       THEN /\ ret' = [op |-> "register", arg |-> JAbsent, raised |-> "ValueError",
                       message |-> "identifier", result |-> <<>>]
            /\ UNCHANGED _patients
       ELSE /\ ret' = [op |-> "register", arg |-> JAbsent, raised |-> "none", message |-> "",
                       result |-> <<>>]
            /\ _patients' = _patients \cup {patient_id.s}
    /\ UNCHANGED <<_appointments, _sequence, sent>>
    /\ AppointmentFrame

\* A call of book_appointment; at most MaxBookings calls go through.
BookAppointment(patient_id, provider_id, datetime) ==
    LET r == book_appointment(_patients, _appointments, _sequence,
                              patient_id, provider_id, datetime) IN
    /\ r.raised = "none" => _sequence <= MaxBookings
    /\ _appointments' = r.appointments
    /\ _sequence' = r.sequence
    /\ sent' = sent + Notifications(r.raised)
    /\ ret' = [op |-> "book", arg |-> JAbsent, raised |-> r.raised, message |-> r.message,
               result |-> r.result]
    /\ UNCHANGED _patients
    /\ AppointmentFrame

\* A call of cancel_appointment.
CancelAppointment(appointment_id) ==
    LET r == cancel_appointment(_appointments, appointment_id) IN
    /\ _appointments' = r.appointments
    /\ ret' = [op |-> "cancel", arg |-> appointment_id, raised |-> r.raised, message |-> r.message,
               result |-> <<>>]
    /\ UNCHANGED <<_patients, _sequence, sent>>
    /\ AppointmentFrame

\* A call of get_patient_schedule.
GetPatientSchedule(patient_id) ==
    LET r == get_patient_schedule(_appointments, patient_id) IN
    /\ ret' = [op |-> "schedule", arg |-> patient_id, raised |-> r.raised, message |-> r.message,
               result |-> r.result]
    /\ UNCHANGED <<_patients, _appointments, _sequence, sent>>
    /\ AppointmentFrame

NextAppointments ==
    \/ \E patient_id \in {JStr(<<"p">>), JStr(<<"q">>), JStr(<<>>)} :
          register_patient(patient_id)
    \/ \E patient_id \in PatientInputs, provider_id \in ProviderInputs,
          datetime \in DateTimeInputs :
          BookAppointment(patient_id, provider_id, datetime)
    \/ \E appointment_id \in AppointmentIdInputs : CancelAppointment(appointment_id)
    \/ \E patient_id \in PatientInputs \cup {JStr(<<" ">>)} :
          GetPatientSchedule(patient_id)

\* One appointment store and one patient registry, nothing booked yet.
SpecAppointments == Init /\ [][NextAppointments]_vars

\* ------------------------------------------- the batch loops: operations
BatchFrame ==
    UNCHANGED <<haloVars, loggerVars, schedulerVars, cli, appointmentVars, err>>

\* A routine is called with a list of items to work through.
BatchStart(routine, items) ==
    /\ batch.pc = "idle"
    /\ batch' = [IdleBatch EXCEPT !.pc = "loop", !.routine = routine,
                                  !.items = items, !.i = 1]
    /\ BatchFrame

\* One pass of the loop body.
BatchItem ==
    /\ batch.pc = "loop"
    /\ batch.i <= Len(batch.items)
    /\ LET kind == batch.items[batch.i]
           visited == batch.visited \cup {batch.i}
       IN  IF ItemRaises(batch.routine, kind) /\ ~ItemCaught(batch.routine, kind)
           THEN batch' = [batch EXCEPT !.pc = "raised", !.visited = visited]
           ELSE batch' = [batch EXCEPT
                            !.i = @ + 1, !.visited = visited,
                            !.recorded = IF ItemRecorded(batch.routine, kind)
                                         THEN Append(@, batch.i) ELSE @]
    /\ BatchFrame

\* The loop is through: the report is written (billing.py line 191,
\* recalls.py line 207), submit_claims is called (main.py line 209).
BatchEnd ==
    /\ batch.pc = "loop"
    /\ batch.i > Len(batch.items)
    /\ batch' = [batch EXCEPT !.pc = "returned", !.finished = TRUE]
    /\ BatchFrame

NextBatch ==
    \/ \E routine \in BatchRoutines :
          \E items \in UNION {[1..n -> ItemKinds(routine)] : n \in 0..MaxItems} :
              BatchStart(routine, items)
    \/ BatchItem
    \/ BatchEnd

SpecBatch == Init /\ [][NextBatch]_vars

\* ---------------------------------------- error responses: operations
\* Lines 213-219 of _request: the terminal response of the session is
\* returned when its status is expected; otherwise it is logged and a
\* HaloAPIError is raised.
ReceiveResponse(status, arg, content_type, body) ==
    /\ IF StatusAccepted(status, NormalizeExpected(arg))
       THEN err' = [IdleError EXCEPT !.outcome = "returned", !.status = status,
                                     !.content_type = content_type, !.body = body]
       ELSE err' = [outcome |-> "HaloAPIError", status |-> status,
                    content_type |-> content_type, body |-> body,
                    logged |-> _log_error_response(content_type, body),
                    message_chars |-> ErrorMessageBodyChars(body)]
    /\ UNCHANGED <<haloVars, loggerVars, schedulerVars, cli, appointmentVars, batch>>

NextErrorResponse ==
    \E status \in ApiStatuses, arg \in ExpectedStatusArgs,
       content_type \in ContentTypes, body \in BodyInputs :
        ReceiveResponse(status, arg, content_type, body)

SpecErrorResponse == Init /\ [][NextErrorResponse]_vars

\* ================================================================ claims

\* C1: when the cached token is absent or expired and several threads call
\* _get_access_token concurrently, exactly one token-endpoint request is
\* made and every caller returns the same new token.  Stated for a caller
\* that found the cache stale and was blocked on the lock while another
\* caller's refresh succeeded: when it gets the lock at that same instant,
\* it returns the token of that refresh and sends no request of its own.
C1_OneRefreshForConcurrentCallers ==
    [][\A t \in Threads :
          ( /\ th[t].pc = "tok_lock"
            /\ th[t].sawRefreshAt = now
            /\ th'[t].pc # "tok_lock" )
          => /\ th'[t].pc = "done"
             /\ th'[t].result = [kind |-> "token", token |-> _token.access_token,
                                 status |-> 0]
             /\ th'[t].tokReqs = 0]_vars

\* C2: a call of _get_access_token issued while the cached token is valid
\* (now + refresh_buffer < expires_at) returns the cached access token,
\* sends no token-endpoint request and leaves the cache and the lock alone,
\* whatever the other threads are doing.
C2_ValidCacheNoRefresh ==
    [][\A t \in Threads :
          ( /\ th[t].pc = "idle"
            /\ th'[t].pc # "idle"
            /\ th'[t].op = "token"
            /\ _token.present
            /\ now + token_refresh_buffer < _token.expires_at )
          => /\ th'[t].pc = "done"
             /\ th'[t].result = [kind |-> "token", token |-> _token.access_token,
                                 status |-> 0]
             /\ th'[t].tokReqs = 0
             /\ _token' = _token
             /\ _token_lock' = _token_lock]_vars

\* Two threads are both back from a call made while the cache was valid,
\* with the cached token and without any token-endpoint request.
C2_Witness ==
    \E t, u \in Threads :
        /\ t # u
        /\ \A x \in {t, u} :
              /\ th[x].pc = "done"
              /\ th[x].op = "token"
              /\ th[x].path = "fast"
              /\ th[x].tokReqs = 0
              /\ th[x].result.kind = "token"
              /\ th[x].result.token = _token.access_token
        /\ _token.present

\* C3: every access token that _get_access_token returns satisfies
\* now + refresh_buffer < expires_at at the moment it is returned.
C3_ReturnedTokenOutsideBuffer ==
    [][\A t \in Threads :
          (th[t].pc # "done" /\ th'[t].pc = "done" /\ th'[t].result.kind = "token")
          => /\ th'[t].result.token = _token'.access_token
             /\ now' + token_refresh_buffer < _token'.expires_at]_vars

\* C4: when every attempt of one _request call is answered with status 503,
\* exactly max_retries + 1 attempts are made and the call fails with an API
\* error that carries status 503.
C4_Retry503ThenApiError503 ==
    \A t \in Threads :
        (th[t].pc = "done" /\ th[t].op = "request" /\ th[t].attempts >= 1 /\ th[t].all503)
        => /\ th[t].attempts = max_retries + 1
           /\ th[t].result.kind = "HaloAPIError"
           /\ th[t].result.status = 503

\* C5: when the first answer to a _request call has a status that is
\* neither in the retryable set {429, 500, 502, 503, 504} nor expected,
\* exactly one attempt is made and the call fails with an API error.
C5_NonRetryableStatusOneAttempt ==
    \A t \in Threads :
        ( /\ th[t].pc = "done"
          /\ th[t].op = "request"
          /\ th[t].firstResp.kind = "response"
          /\ th[t].firstResp.status \notin {429, 500, 502, 503, 504}
          /\ th[t].firstResp.status \notin th[t].expected_status )
        => /\ th[t].attempts = 1
           /\ th[t].result.kind = "HaloAPIError"

\* C6: _request returns the response if and only if the final response (the
\* one Session.request hands back) has a status in expected_status; for
\* every other final status, a 2xx that is not listed included, it raises
\* an API error about that status.
C6_ReturnsIffStatusExpected ==
    \A t \in Threads :
        (th[t].pc = "done" /\ th[t].op = "request")
        => /\ th[t].result.kind = "response"
                <=> ( /\ th[t].lastResp.kind = "response"
                      /\ th[t].lastResp.status \in th[t].expected_status )
           /\ th[t].result.kind = "response"
                => th[t].result.status = th[t].lastResp.status
           /\ ( /\ th[t].lastResp.kind = "response"
                /\ th[t].lastResp.status \notin th[t].expected_status )
                => /\ th[t].result.kind = "HaloAPIError"
                   /\ th[t].result.status = th[t].lastResp.status

\* A _request call has ended in an API error on a final 2xx status that is
\* not in its expected_status.
C6_Witness ==
    \E t \in Threads :
        /\ th[t].pc = "done"
        /\ th[t].op = "request"
        /\ th[t].lastResp = [kind |-> "response", status |-> 204]
        /\ 204 \notin th[t].expected_status
        /\ th[t].result = Raise("HaloAPIError", 204)

\* C7: a _request call whose every attempt failed without a response fails
\* with an error of a kind other than the API error.
C7_NoResponseIsNotApiError ==
    \A t \in Threads :
        (th[t].pc = "done" /\ th[t].op = "request" /\ th[t].attempts >= 1 /\ th[t].noResponse)
        => /\ th[t].result.kind # "response"
           /\ th[t].result.kind # "HaloAPIError"

\* C8: within one _request call the token cache is consulted before every
\* physical attempt, the first one and each retry.
C8_TokenConsultedPerAttempt ==
    \A t \in Threads :
        th[t].op = "request" => th[t].attempts <= th[t].consults

\* C9: one call of _get_access_token sends at most one token-endpoint
\* request, also when the endpoint answers 503 or the connection fails.
C9_TokenRequestNotRetried ==
    \A t \in Threads : th[t].tokReqs <= 1

\* A present expires_in that int() rejects; an access_token that is missing
\* or not a string.
ExpiresInNotCoercible(v) == v.t # "absent" /\ ~IntCoerce(v).ok

AccessTokenUnusable(v) == v.t # "str"

\* C10: a token response whose expires_in is present but not coercible to
\* an integer, or whose access_token is missing or not a string, makes
\* _get_access_token fail with an authentication error and cache no token.
C10_BadTokenFieldsRejected ==
    [][\A t \in Threads : \A outcome \in TokenOutcomes(issued) :
          ( /\ TokenAttempt(t, outcome)
            /\ outcome.kind = "response"
            /\ outcome.status = 200
            /\ outcome.body.form = "object"
            /\ \/ ExpiresInNotCoercible(outcome.body.expires_in)
               \/ AccessTokenUnusable(outcome.body.access_token) )
          => /\ th'[t].pc = "done"
             /\ th'[t].result.kind = "HaloAuthError"
             /\ _token' = _token]_vars

\* The list a log() call finds in the file: its items, none for a missing
\* or blank file.
PreviousArray(file) == IF file.form = "list" THEN file.items ELSE <<>>

\* No log() call is under way.
LogQuiescent == _lock = 0 /\ \A t \in Threads : lg[t].pc \in {"idle", "returned", "raised"}

\* The entry carries the task, status, message and details of the call.
GivenFields(e, args) ==
    /\ e.task = args.task_name
    /\ e.status = args.status
    /\ e.message = args.message
    /\ e.details = args.details

\* The same, an empty message counting as no message.
RecordedFields(e, args) ==
    /\ e.task = args.task_name
    /\ e.status = args.status
    /\ e.message = (IF StrTruthy(args.message) THEN args.message ELSE None)
    /\ e.details = args.details

\* C11: every successful log() call rewrites the file as the previous
\* array followed by exactly one new entry, earlier entries unchanged; N
\* log() calls one after the other on an absent file leave exactly N
\* entries in call order, each with the task, status, message and details
\* it was given.
C11_AppendsOneEntryWithGivenFields ==
    /\ [][\A t \in Threads :
            (lg[t].pc = "write" /\ lg'[t].pc = "returned")
            => /\ log_file'.form = "list"
               /\ Len(log_file'.items) = Len(PreviousArray(log_file)) + 1
               /\ SubSeq(log_file'.items, 1, Len(PreviousArray(log_file)))
                    = PreviousArray(log_file)
               /\ GivenFields(log_file'.items[Len(log_file'.items)], lg[t].args)]_vars
    /\ []((file0 = FileAbsent /\ LogQuiescent)
            => /\ Len(PreviousArray(log_file)) = Len(acquired)
               /\ \A i \in 1..Len(acquired) :
                     GivenFields(log_file.items[i], acquired[i].args))

\* C11 as amended: the same, each entry with the task, status and details
\* it was given and with the message it was given unless that message is
\* empty; an empty message is left out of the entry like an absent one.
C11_AppendsOneEntryWithRecordedFields ==
    /\ [][\A t \in Threads :
            (lg[t].pc = "write" /\ lg'[t].pc = "returned")
            => /\ log_file'.form = "list"
               /\ Len(log_file'.items) = Len(PreviousArray(log_file)) + 1
               /\ SubSeq(log_file'.items, 1, Len(PreviousArray(log_file)))
                    = PreviousArray(log_file)
               /\ RecordedFields(log_file'.items[Len(log_file'.items)], lg[t].args)]_vars
    /\ []((file0 = FileAbsent /\ LogQuiescent)
            => /\ Len(PreviousArray(log_file)) = Len(acquired)
               /\ \A i \in 1..Len(acquired) :
                     RecordedFields(log_file.items[i], acquired[i].args))

\* Two log() calls on an absent file have returned, one of them given an
\* empty message, and the file holds their two entries.
C11_Witness ==
    /\ file0 = FileAbsent
    /\ LogQuiescent
    /\ Len(acquired) = 2
    /\ log_file.form = "list"
    /\ Len(log_file.items) = 2
    /\ \E i \in 1..2 : acquired[i].args.message = Some("")
    /\ \E i \in 1..2 : acquired[i].args.details # None

\* The file exists and its content is not a JSON array: text that is not
\* JSON, a JSON value that is not an array, or nothing at all.
NotAJsonArray(file) == file.form \in {"invalid", "nonlist", "blank"}

\* C12: when the log file exists and does not hold a valid JSON array
\* (invalid JSON, a JSON value that is not an array, or an empty file),
\* a log() call raises the corruption error and the file keeps its
\* content; the file is never overwritten.
C12_CorruptFileRaisesAndIsKept ==
    NotAJsonArray(file0)
    => /\ log_file = file0
       /\ \A t \in Threads : lg[t].pc \notin {"write", "returned"}

\* The log() calls that acquired the lock and are through with the file:
\* all of them, but the holder of the lock when there is one.
LogCallsDone == IF _lock = 0 THEN acquired ELSE SubSeq(acquired, 1, Len(acquired) - 1)

\* C13: with threads calling log() concurrently on one TaskLogger, no
\* entry is lost or duplicated and the entries are in the file in the
\* order in which their calls acquired the lock, also when the
\* completed_at timestamps are in another order.
C13_FileOrderIsLockOrder ==
    _read_history(file0).ok
    => PreviousArray(log_file)
         = PreviousArray(file0) \o [i \in 1..Len(LogCallsDone) |-> LogCallsDone[i].entry]

\* Two calls have written their entries, the one with the later
\* completed_at first.
C13_Witness ==
    /\ LogQuiescent
    /\ file0 = FileAbsent
    /\ Len(acquired) = 2
    /\ Len(PreviousArray(log_file)) = 2
    /\ log_file.items[1] = acquired[1].entry
    /\ log_file.items[2] = acquired[2].entry
    /\ log_file.items[1].completed_at[1] > log_file.items[2].completed_at[1]

\* The poll loop is through with the run of a task: the action has
\* finished, logger.log and mark_executed have run.
RunEnds == sch.pc = "running" /\ sch'.pc # "running"

\* C14: a corruption error of log() is not silently swallowed: when the
\* log file is corrupt as the poll loop runs a due task, the error leaves
\* start() to its caller instead of being dropped while the loop goes on
\* (there is nowhere else the code could record it).
C14_CorruptionErrorSurfaces ==
    [][(RunEnds /\ ~_read_history(log_file).ok) => sch'.pc = "raised"]_vars

\* C15: while the poll loop runs, a task is run once per calendar day,
\* whether its action succeeds or fails: a run of a task never begins on
\* a date on which an earlier run of it began, however the clock moves
\* between polls.
C15_NeverTwiceOnOneDate ==
    [][\A k \in 1..Len(_tasks) :
          (sch.pc = "loop" /\ sch'.pc = "running" /\ sch.i = k)
          => ran_on[k] < DateOf(clock)]_vars

\* The entry at the end of the file.
LastEntry(file) == file.items[Len(file.items)]

\* C16: an exception raised by a task's action does not end the poll loop
\* and keeps no other task that is due in the same iteration from being
\* run: the failure is recorded as one log entry with status "failed" and
\* the exception's message, the loop goes on to the next task, and when
\* the iteration is over every task that was due at its start has been
\* run and rescheduled.
C16_TaskExceptionIsContained ==
    /\ [][\A outcome \in ActionOutcomes :
            (FinishTask(outcome) /\ outcome.kind = "raise")
            => /\ sch'.pc = "loop"
               /\ sch'.i = sch.i + 1
               /\ log_file'.form = "list"
               /\ Len(log_file'.items) = Len(PreviousArray(log_file)) + 1
               /\ LastEntry(log_file').task = _tasks[sch.i].name
               /\ LastEntry(log_file').status = "failed"
               /\ LastEntry(log_file').message = Some(outcome.message)]_vars
    /\ [](sch.pc = "sleep" => \A k \in 1..Len(_tasks) : ~IsDue(sch.now, _tasks[k]))

\* C17: after every run the poll loop makes of a task, whether the action
\* returned or raised or the logging itself raised, the task's next_run
\* is the first occurrence of its time_of_day strictly after the current
\* instant; the task is then not due, and a task that always fails is
\* not run again and again.
C17_NextRunRecomputedAfterEveryRun ==
    [][RunEnds
       => LET task == _tasks'[sch.i] IN
          /\ task.next_run > clock'
          /\ task.next_run <= clock' + DayLen
          /\ TimeOf(task.next_run) = task.time_of_day
          /\ ~IsDue(clock', task)
          /\ task.time_of_day = _tasks[sch.i].time_of_day]_vars

\* With a corrupt log file, so that the logging raised, a task has been
\* run and the poll iteration is over with the task due at a later
\* instant.
C17_Witness ==
    /\ log_file = FileInvalid
    /\ sch.pc = "sleep"
    /\ \E k \in 1..Len(_tasks) :
          /\ ran_on[k] >= 0
          /\ _tasks[k].next_run > clock

\* C18: at registration next_run is today at time_of_day when time_of_day
\* is strictly later than the current local time, tomorrow at time_of_day
\* when it is equal or earlier; so next_run is strictly in the future
\* right after add_daily_task.
C18_RegistrationSchedulesInFuture ==
    [][\A run_time \in 0..(DayLen - 1) :
          add_daily_task(run_time)
          => LET task == _tasks'[Len(_tasks')] IN
             /\ task.time_of_day = run_time
             /\ run_time > TimeOf(clock)
                  => task.next_run = Combine(DateOf(clock), run_time)
             /\ run_time <= TimeOf(clock)
                  => task.next_run = Combine(DateOf(clock) + 1, run_time)
             /\ task.next_run > clock']_vars

\* Two tasks have just been registered at one instant, one with a
\* time_of_day that is still ahead today and one with the current time as
\* its time_of_day, which falls on tomorrow.
C18_Witness ==
    /\ sch.pc = "init"
    /\ Len(_tasks) = 2
    /\ \E j, k \in 1..2 :
          /\ _tasks[j].time_of_day > TimeOf(clock)
          /\ _tasks[j].next_run = Combine(DateOf(clock), _tasks[j].time_of_day)
          /\ _tasks[k].time_of_day = TimeOf(clock)
          /\ _tasks[k].next_run = Combine(DateOf(clock) + 1, _tasks[k].time_of_day)

\* C19: every call of execute_with_logging appends exactly one log entry
\* once the action has finished: status "success", with the action's dict
\* result as details, when the action returned; status "failed", with the
\* exception's message, when the action raised, and then the action's
\* own exception is what the wrapper raises to its caller.
C19_WrapperLogsOneEntryAndReraises ==
    [][\A outcome \in ActionOutcomes :
          FinishTask(outcome)
          => LET r == execute_with_logging(log_file, _tasks[sch.i].name, outcome,
                                           sch.start_time, clock)
                 n == Len(PreviousArray(log_file))
             IN /\ log_file'.form = "list"
                /\ Len(log_file'.items) = n + 1
                /\ SubSeq(log_file'.items, 1, n) = PreviousArray(log_file)
                /\ LastEntry(log_file').task = _tasks[sch.i].name
                /\ outcome.kind = "return"
                     => /\ LastEntry(log_file').status = "success"
                        /\ outcome.is_dict => LastEntry(log_file').details = Some(ResultDict)
                        /\ r.raised = "none"
                /\ outcome.kind = "raise"
                     => /\ LastEntry(log_file').status = "failed"
                        /\ LastEntry(log_file').message = Some(outcome.message)
                        /\ r.raised = "Exception"
                /\ outcome.kind = "raise_base"
                     => /\ LastEntry(log_file').status = "failed"
                        /\ r.raised = "BaseException"]_vars

\* The thread in start() takes a step.
SchedulerMoves == sch'.pc # sch.pc \/ sch'.i # sch.i

C21_LoggedFailureExitsZero ==
    (cli.pc = "exited" /\ cli.raised # "ValueError") => cli.exit_code = 0

\* Two records for one provider at one scheduled time.
SameSlot(a, b) ==
    a.provider_id = b.provider_id /\ a.scheduled_time = b.scheduled_time

\* C22: after any sequence of book_appointment and cancel_appointment
\* calls on one store no two stored appointments have the same provider
\* and the same scheduled time; a booking of a taken slot raises
\* ValueError: a call that returns was for a slot no stored record had.
C22_NoDoubleBooking ==
    /\ [](\A i, j \in 1..Len(_appointments) :
             i # j => ~SameSlot(_appointments[i], _appointments[j]))
    /\ [][(ret'.op = "book" /\ ret'.raised = "none")
            => \A k \in 1..Len(_appointments) :
                  ~SameSlot(_appointments[k], ret'.result[1])]_vars
    /\ [][(ret'.op = "book" /\ ret'.message = "unavailable")
            => (ret'.raised = "ValueError" /\ _appointments' = _appointments)]_vars

\* A booking was refused for its slot while two appointments are stored.
C22_Witness ==
    ret.op = "book" /\ ret.message = "unavailable" /\ Len(_appointments) = 2

\* C23: a rejected book_appointment call (patient not registered, slot
\* taken) changes nothing: the stored appointments are as before and
\* send_notification is not called; a successful call stores one record
\* and calls send_notification once, so the calls made are as many as
\* the successful bookings.
C23_RejectedBookingHasNoEffect ==
    /\ [][ret'.op = "book"
            => IF ret'.raised # "none"
               THEN /\ _appointments' = _appointments
                    /\ _sequence' = _sequence
                    /\ sent' = sent
               ELSE /\ _appointments' = Append(_appointments, ret'.result[1])
                    /\ sent' = sent + 1]_vars
    /\ [](sent = _sequence - 1)

\* A booking for an unregistered patient was refused after another
\* booking had gone through.
C23_Witness ==
    ret.op = "book" /\ ret.message = "not registered" /\ sent = 1
    /\ Len(_appointments) = 1

\* The sequence without its k-th element.
WithoutIndex(seq, k) == SubSeq(seq, 1, k - 1) \o SubSeq(seq, k + 1, Len(seq))

\* C24: cancel_appointment removes the appointment with the given id,
\* and no other, when one is stored; it raises ValueError and leaves the
\* store as it was when none is (never booked, or cancelled already).
C24_CancelRemovesExactlyTheOne ==
    [][ret'.op = "cancel"
         => IF ret'.arg.t = "str" /\ HasKey(_appointments, strip(ret'.arg.s))
            THEN /\ ret'.raised = "none"
                 /\ \E k \in 1..Len(_appointments) :
                       /\ _appointments[k].appointment_id = strip(ret'.arg.s)
                       /\ _appointments' = WithoutIndex(_appointments, k)
            ELSE /\ ret'.raised = "ValueError"
                 /\ _appointments' = _appointments]_vars

\* The second of two appointments was cancelled, the first is kept.
C24_Witness ==
    /\ ret.op = "cancel" /\ ret.raised = "none" /\ ret.arg = JStr(str(2))
    /\ Len(_appointments) = 1 /\ _appointments[1].appointment_id = str(1)

\* C25: get_patient_schedule(p) returns exactly the appointments of
\* patient p that are booked and not cancelled, ascending by scheduled
\* time, in whatever order they were booked.
C25_ScheduleIsThePatientsAppointmentsInTimeOrder ==
    [][(ret'.op = "schedule" /\ _validate_identifier(ret'.arg).ok)
         => /\ ret'.raised = "none"
            /\ Len(ret'.result)
                 = Cardinality({k \in 1..Len(_appointments) :
                                  _appointments[k].patient_id = strip(ret'.arg.s)})
            /\ \A k \in 1..Len(_appointments) :
                  _appointments[k].patient_id = strip(ret'.arg.s)
                    => \E i \in 1..Len(ret'.result) : ret'.result[i] = _appointments[k]
            /\ \A i, j \in 1..Len(ret'.result) :
                  i < j => ret'.result[i].scheduled_time.instant
                             <= ret'.result[j].scheduled_time.instant]_vars

\* C26: a successful refresh stores expires_at = the instant of the refresh
\* + expires_in for every integer expires_in, zero included; the default
\* of 300 seconds is used only when the field is absent.
C26_ExpiresAtIsInstantPlusExpiresIn ==
    [][\A t \in Threads : \A outcome \in TokenOutcomes(issued) :
          (TokenAttempt(t, outcome) /\ _token' # _token)
            => /\ outcome.body.expires_in.t = "int"
                    => _token'.expires_at = now + outcome.body.expires_in.n
               /\ _token'.expires_at = now + DEFAULT_EXPIRES_IN
                    => \/ outcome.body.expires_in.t = "absent"
                       \/ IntCoerce(outcome.body.expires_in)
                            = [ok |-> TRUE, val |-> DEFAULT_EXPIRES_IN]]_vars

\* A call of _get_access_token has just ended with an exception.
TokenCallFailed(t) ==
    /\ th[t].pc = "done"
    /\ th[t].path = "locked"
    /\ th[t].result.kind \notin {"token", "none"}

\* C30: a _get_access_token call that fails (network failure, unparseable
\* body, missing access_token, bad expires_in) leaves the cached token as
\* it was and releases the token lock: the lock is held only by a thread
\* inside the with-block, so a later caller gets it, and a caller that
\* got it with a stale cache sends a token-endpoint request of its own.
C30_FailedRefreshKeepsCacheAndFreesLock ==
    /\ [][\A t \in Threads :
             (th[t].pc = "tok_post" /\ th'[t].pc = "done" /\ th'[t].result.kind # "token")
               => (_token' = _token /\ _token_lock' = 0)]_vars
    /\ [](\A t \in Threads : _token_lock = t => th[t].pc = "tok_post")
    /\ [][\A t \in Threads :
             (th[t].pc = "tok_lock" /\ th'[t].pc = "tok_post")
               => (_token_lock = 0 /\ _token_lock' = t)]_vars
    /\ [][\A t \in Threads :
             (th[t].pc = "tok_post" /\ th'[t] # th[t])
               => th'[t].tokReqs = th[t].tokReqs + 1]_vars

\* One thread's refresh failed with a stale token cached and the token
\* is cached still; another thread has taken the lock since (it holds
\* it now) and has sent a token-endpoint request of its own.
C30_Witness ==
    \E t, u \in Threads :
        /\ TokenCallFailed(t)
        /\ _token.present
        /\ th[u].pc = "tok_post" /\ _token_lock = u /\ th[u].tokReqs >= 1

\* The elements of a set of numbers, ascending.
RECURSIVE Ascending(_)
Ascending(S) ==
    IF S = {} THEN <<>>
    ELSE LET m == CHOOSE x \in S : \A y \in S : x <= y
         IN  <<m>> \o Ascending(S \ {m})

\* C27: at most one task action runs at any instant (an action begins
\* only when none is running, and the one running is the last begun);
\* within one poll iteration every task due at the iteration's clock
\* reading is executed exactly once, in the order of registration, before
\* the loop sleeps, and no other task is.
C27_DueTasksRunOnceInOrderBeforeSleep ==
    /\ [][sch'.ran # sch.ran /\ sch'.ran # <<>> => sch.pc = "loop" /\ sch'.pc = "running"]_vars
    /\ [](sch.pc = "running" => sch.ran # <<>> /\ sch.ran[Len(sch.ran)] = sch.i)
    /\ [][sch'.pc = "sleep" /\ sch.pc # "sleep"
            => sch.pc = "loop" /\ sch.ran = Ascending(sch.due)]_vars
    /\ [](sch.pc \in {"loop", "running"}
            => \E n \in 0..Len(sch.ran) : sch.ran = SubSeq(Ascending(sch.due), 1, n))

\* The loop goes to sleep after an iteration in which both tasks were due
\* and ran.
C27_Witness ==
    sch.pc = "loop" /\ sch.i > Len(_tasks) /\ sch.ran = <<1, 2>> /\ sch.due = {1, 2}

\* The batch has ended, by a return or by an exception.
BatchOver == batch.pc \in {"returned", "raised"}

\* C28: the failure of one item does not abort the batch: every item,
\* those after a failing one included, is processed and the step after
\* the loop is reached; in run_claims a malformed entry does not keep the
\* other claims from being queued and submitted.
C28_ItemFailureDoesNotAbortBatch ==
    BatchOver
      => /\ batch.visited = 1..Len(batch.items)
         /\ batch.finished
         /\ batch.routine = "run_claims"
              => batch.recorded
                   = Ascending({k \in 1..Len(batch.items) : batch.items[k] = "object"})

\* C29: for every terminal response whose status is not expected, the
\* body text written to the log and the body text put into the raised
\* API error are bounded by the excerpt length, whatever the length and
\* the content type of the body: no body is logged in full.
C29_ErrorBodyIsBounded ==
    err.outcome = "HaloAPIError"
      => /\ err.logged.body_chars <= BODY_EXCERPT_CHARS
         /\ err.message_chars <= BODY_EXCERPT_CHARS

====
